---- MODULE Spec2Model ----
\* Verification model of the NotionChart dashboard component
\* (frankowskim/Notion_charts).  The repository holds several revisions of
\* the same component; each specification below models one of them:
\*   Spec      - live-channel lifecycle of the reconnect/heartbeat revision
\*               (src/unnamed/part_002 lines 1-576)
\*   SpecFetch - fetchData and the message handler of the reconnect revision
\*               and of the first revision of src/src/NotionChart.tsx
\*   SpecDiff  - updateChartsByChanges (src/unnamed/part_004, part_003)
\*   SpecView  - toggleBase, handleDragEnd and the projection to rendered
\*               groups of the first and the reconnect revision and of the
\*               second revision of src/unnamed/part_000
\*   SpecFold  - grouping by base and slot and the subtask fold of
\*               src/unnamed/part_001
EXTENDS Integers, Sequences, FiniteSets, TLC

\* ------------------------------------------------------------------ bounds
\* Size of the pool of WebSocket objects that can be alive at the same time.
MaxSockets == 2
\* Number of manual-reconnect timers (250 ms) that can be pending at once.
MaxManualTimers == 1
\* Number of fetchData calls one behaviour starts.
MaxFetches == 3
\* Number of updateChartsByChanges calls one behaviour makes.
MaxDiffs == 1
\* Number of snapshots one behaviour of the selection model loads.
MaxLoads == 2

\* ------------------------------------------------------- program constants
MAX_RECONNECT_ATTEMPTS == 8
BACKOFF_BASE_MS == 1000
BACKOFF_CAP_MS == 30000
MANUAL_RECONNECT_DELAY_MS == 250
\* slot: number | null.  The null of a subtask item.
NullSlot == -1
\* The NaN that (0 / 0 * 100).toFixed(0) displays.
NaNPercent == -1

VARIABLES
    \* --- live channel (part_002, reconnect revision) ---
    phase,                  \* "init" (constructed), "mounted", "unmounted"
    wsUrlSet,               \* import.meta.env.VITE_WS_URL is non-empty
    wsStatus,               \* React state wsStatus
    wsRef,                  \* wsRef.current: 0 is null, else a socket
    readyState,             \* readyState of every WebSocket object of the pool
    handlers,               \* socket still has its onopen/onclose handlers
    heartbeatIntervalRef,   \* 0 is null, else the socket the interval pings
    reconnectTimeoutRef,    \* "null", "pending" (armed timer), "fired" (stale id)
    reconnectDelay,         \* delay in ms of the timer armed last (0: none yet)
    reconnectAttemptsRef,   \* reconnectAttemptsRef.current
    manualTimers,           \* pending 250 ms timers of handleManualReconnect
    \* --- history variables of the live channel ---
    ev,                     \* the event handled last
    closures,               \* onclose calls since the last onopen (saturating)
    closuresSinceReset,     \* onclose calls since the last onopen/forceCloseWs
    gaveUp,                 \* scheduleReconnect took its give-up branch and the
                            \* attempt counter has not been reset since
    forceClosed,            \* sockets closed by forceCloseWs, not yet CLOSED
    \* --- data synchronizer (fetchData of part_002 and NotionChart.tsx) ---
    rev,                    \* "reconnect": part_002 lines 1-576;
                            \* "first": NotionChart.tsx lines 1-331;
                            \* "diff": part_004 (and part_003);
                            \* "second": part_002 lines 578-940;
                            \* "toggleAll": part_000 lines 323-574
    apiUrlSet,              \* import.meta.env.VITE_API_URL is non-empty
    mountedF,               \* the mount effect has started the first fetchData
    charts,                 \* React state charts (the snapshot)
    chartsRef,              \* chartsRef.current (reconnect revision)
    lastUpdated,            \* React state lastUpdated: 0 is null, else a time
    orderedBases,           \* React state orderedBases
    loading,                \* React state loading
    inflight,               \* fetchData calls suspended at an await
    started,                \* number of fetchData calls started so far
    \* --- history variables of the data synchronizer ---
    fev,                    \* the fetch event handled last
    lastDone,               \* the parsed response that completed last, or the
                            \* push frame handled after it
    prevDone,               \* the parsed response that completed before it
    \* --- history variables of updateChartsByChanges ---
    lastChanges,            \* the changes map applied last
    beforeDiff,             \* the snapshot it was applied to
    \* --- selection and order of the groups ---
    selectedBases,          \* React state selectedBases
    \* --- history variable of the selection and the order ---
    lastView                \* the toggle, drag or render handled last, with the
                            \* state it started from

wsVars == <<phase, wsUrlSet, wsStatus, wsRef, readyState, handlers,
            heartbeatIntervalRef, reconnectTimeoutRef, reconnectDelay,
            reconnectAttemptsRef, manualTimers, ev, closures,
            closuresSinceReset, gaveUp, forceClosed>>

fetchVars == <<rev, apiUrlSet, mountedF, charts, chartsRef, lastUpdated,
               orderedBases, loading, inflight, started, fev, lastDone, prevDone>>

diffVars == <<lastChanges, beforeDiff>>

viewVars == <<selectedBases, lastView>>

vars == <<wsVars, fetchVars, diffVars, viewVars>>

Sockets == 1..MaxSockets

Min(a, b) == IF a < b THEN a ELSE b

\* Saturation point of the two closure counters.
ClosuresCap == MAX_RECONNECT_ATTEMPTS + 1

\* ------------------------------------------------------------ live channel

\* A socket is alive while the browser can still deliver events for it.
Alive(s) == readyState[s] # "CLOSED"

\* React ignores a state update of a component that is no longer mounted.
SetWsStatus(v) == IF phase = "unmounted" THEN wsStatus ELSE v

\* Backoff without the 30 s ceiling.
BackoffNoCap(attempt) == BACKOFF_BASE_MS * 2^attempt

\* Math.min(1000 * 2 ** attempt, 30000)
Backoff(attempt) == Min(BACKOFF_BASE_MS * 2^attempt, BACKOFF_CAP_MS)

\* The pool slot "new WebSocket(wsUrl)" takes: a closed object nothing refers to.
FreeSockets == {s \in Sockets : ~Alive(s) /\ wsRef # s /\ heartbeatIntervalRef # s}
NewSocket == CHOOSE s \in FreeSockets : \A t \in FreeSockets : s <= t

\* connectWebsocket().  Assigns wsStatus, wsRef, readyState, handlers.
\* The new socket takes a slot of the pool; with none free the caller waits.
ConnectWebsocket ==
    IF ~wsUrlSet
    THEN /\ wsStatus' = SetWsStatus("disconnected")
         /\ UNCHANGED <<wsRef, readyState, handlers>>
    ELSE IF wsRef # 0 /\ readyState[wsRef] \in {"OPEN", "CONNECTING"}
    THEN UNCHANGED <<wsStatus, wsRef, readyState, handlers>>
    ELSE /\ FreeSockets # {}
         /\ wsStatus' = SetWsStatus("connecting")
         /\ wsRef' = NewSocket
         /\ readyState' = [readyState EXCEPT ![NewSocket] = "CONNECTING"]
         /\ handlers' = [handlers EXCEPT ![NewSocket] = TRUE]

\* scheduleReconnect without the attempt budget: it always arms the timer.
ScheduleReconnectNoBudget ==
    /\ reconnectAttemptsRef' = Min(reconnectAttemptsRef + 1, MAX_RECONNECT_ATTEMPTS)
    /\ reconnectDelay' = Backoff(reconnectAttemptsRef + 1)
    /\ reconnectTimeoutRef' = "pending"
    /\ gaveUp' = FALSE

\* scheduleReconnect(): stopReconnectTimeout, then give up or arm the timer.
\* Called by ws.onclose only, which has already set wsStatus.
\* Assigns reconnectTimeoutRef, reconnectDelay, reconnectAttemptsRef, gaveUp.
ScheduleReconnect ==
    LET attempt == reconnectAttemptsRef + 1 IN
    IF attempt > MAX_RECONNECT_ATTEMPTS
    THEN /\ reconnectTimeoutRef' = "null"
         /\ gaveUp' = TRUE
         /\ UNCHANGED <<reconnectDelay, reconnectAttemptsRef>>
    ELSE /\ reconnectAttemptsRef' = attempt
         /\ reconnectDelay' = Backoff(attempt)
         /\ reconnectTimeoutRef' = "pending"
         /\ gaveUp' = FALSE

\* forceCloseWs that leaves the handlers of the socket attached.
ForceCloseWsKeepHandlers ==
    /\ reconnectTimeoutRef' = "null"
    /\ heartbeatIntervalRef' = 0
    /\ reconnectAttemptsRef' = 0
    /\ gaveUp' = FALSE
    /\ closuresSinceReset' = 0
    /\ IF wsRef # 0
       THEN /\ readyState' = [readyState EXCEPT ![wsRef] =
                                 IF @ \in {"OPEN", "CONNECTING"} THEN "CLOSING" ELSE @]
            /\ forceClosed' = IF Alive(wsRef) THEN forceClosed \cup {wsRef}
                                              ELSE forceClosed
       ELSE UNCHANGED <<readyState, forceClosed>>
    /\ UNCHANGED handlers
    /\ wsRef' = 0
    /\ wsStatus' = SetWsStatus("disconnected")

\* forceCloseWs(): assigns reconnectTimeoutRef, heartbeatIntervalRef,
\* reconnectAttemptsRef, wsRef, readyState, handlers, wsStatus, forceClosed, gaveUp.
ForceCloseWs ==
    /\ reconnectTimeoutRef' = "null"
    /\ heartbeatIntervalRef' = 0
    /\ reconnectAttemptsRef' = 0
    /\ gaveUp' = FALSE
    /\ closuresSinceReset' = 0
    /\ IF wsRef # 0
       THEN /\ handlers' = [handlers EXCEPT ![wsRef] = FALSE]
            /\ readyState' = [readyState EXCEPT ![wsRef] =
                                 IF @ \in {"OPEN", "CONNECTING"} THEN "CLOSING" ELSE @]
            /\ forceClosed' = IF Alive(wsRef) THEN forceClosed \cup {wsRef}
                                              ELSE forceClosed
       ELSE UNCHANGED <<handlers, readyState, forceClosed>>
    /\ wsRef' = 0
    /\ wsStatus' = SetWsStatus("disconnected")

InitWs ==
    /\ phase = "init"
    /\ wsUrlSet \in BOOLEAN
    /\ wsStatus = "disconnected"
    /\ wsRef = 0
    /\ readyState = [s \in Sockets |-> "CLOSED"]
    /\ handlers = [s \in Sockets |-> FALSE]
    /\ heartbeatIntervalRef = 0
    /\ reconnectTimeoutRef = "null"
    /\ reconnectDelay = 0
    /\ reconnectAttemptsRef = 0
    /\ manualTimers = 0
    /\ ev = "none"
    /\ closures = 0
    /\ closuresSinceReset = 0
    /\ gaveUp = FALSE
    /\ forceClosed = {}

\* useEffect(() => { connectWebsocket(); return () => forceCloseWs(); }, [])
Mount ==
    /\ UNCHANGED <<fetchVars, diffVars, viewVars>>
    /\ phase = "init"
    /\ phase' = "mounted"
    /\ ConnectWebsocket
    /\ ev' = "Mount"
    /\ UNCHANGED <<wsUrlSet, heartbeatIntervalRef, reconnectTimeoutRef,
                   reconnectDelay, reconnectAttemptsRef, manualTimers,
                   closures, closuresSinceReset, gaveUp, forceClosed>>

\* The cleanup of the mount effect; the visibilitychange listener is removed
\* by the cleanup of its own effect in the same unmount.
Unmount ==
    /\ UNCHANGED <<fetchVars, diffVars, viewVars>>
    /\ phase = "mounted"
    /\ ForceCloseWs
    /\ phase' = "unmounted"
    /\ ev' = "Unmount"
    /\ UNCHANGED <<wsUrlSet, reconnectDelay, manualTimers, closures>>

\* ws.onopen that leaves the attempt counter as it is.
SocketOpenNoReset(s) ==
    /\ UNCHANGED <<fetchVars, diffVars, viewVars>>
    /\ readyState[s] = "CONNECTING"
    /\ readyState' = [readyState EXCEPT ![s] = "OPEN"]
    /\ IF handlers[s]
       THEN /\ wsStatus' = SetWsStatus("connected")
            /\ reconnectAttemptsRef' = reconnectAttemptsRef
            /\ heartbeatIntervalRef' = s
            /\ closures' = 0
            /\ closuresSinceReset' = 0
            /\ gaveUp' = FALSE
            /\ ev' = "OnOpen"
       ELSE /\ ev' = "OpenNoHandler"
            /\ UNCHANGED <<wsStatus, reconnectAttemptsRef, heartbeatIntervalRef,
                           closures, closuresSinceReset, gaveUp>>
    /\ UNCHANGED <<phase, wsUrlSet, wsRef, handlers, reconnectTimeoutRef,
                   reconnectDelay, manualTimers, forceClosed>>

\* The connection is established: readyState becomes OPEN and onopen runs.
SocketOpen(s) ==
    /\ UNCHANGED <<fetchVars, diffVars, viewVars>>
    /\ readyState[s] = "CONNECTING"
    /\ readyState' = [readyState EXCEPT ![s] = "OPEN"]
    /\ IF handlers[s]
       THEN /\ wsStatus' = SetWsStatus("connected")
            /\ reconnectAttemptsRef' = 0
            /\ heartbeatIntervalRef' = s
            /\ closures' = 0
            /\ closuresSinceReset' = 0
            /\ gaveUp' = FALSE
            /\ ev' = "OnOpen"
       ELSE /\ ev' = "OpenNoHandler"
            /\ UNCHANGED <<wsStatus, reconnectAttemptsRef, heartbeatIntervalRef,
                           closures, closuresSinceReset, gaveUp>>
    /\ UNCHANGED <<phase, wsUrlSet, wsRef, handlers, reconnectTimeoutRef,
                   reconnectDelay, manualTimers, forceClosed>>

\* The server starts the closing handshake: readyState becomes CLOSING, and
\* no handler runs until the connection is closed.
SocketClosing(s) ==
    /\ UNCHANGED <<fetchVars, diffVars, viewVars>>
    /\ readyState[s] = "OPEN"
    /\ readyState' = [readyState EXCEPT ![s] = "CLOSING"]
    /\ ev' = "Closing"
    /\ UNCHANGED <<phase, wsUrlSet, wsStatus, wsRef, handlers,
                   heartbeatIntervalRef, reconnectTimeoutRef, reconnectDelay,
                   reconnectAttemptsRef, manualTimers, closures,
                   closuresSinceReset, gaveUp, forceClosed>>

\* The connection is closed (failed connect, network loss, end of a closing
\* handshake): readyState becomes CLOSED and, in the same task, onerror (a
\* log) and onclose run when they are still attached.
SocketClosed(s) ==
    /\ UNCHANGED <<fetchVars, diffVars, viewVars>>
    /\ Alive(s)
    /\ readyState' = [readyState EXCEPT ![s] = "CLOSED"]
    /\ handlers' = [handlers EXCEPT ![s] = FALSE]
    /\ forceClosed' = forceClosed \ {s}
    /\ IF handlers[s]
       THEN /\ wsStatus' = SetWsStatus("disconnected")
            /\ heartbeatIntervalRef' = 0
            /\ wsRef' = 0
            /\ ScheduleReconnect
            /\ closures' = Min(closures + 1, ClosuresCap)
            /\ closuresSinceReset' = Min(closuresSinceReset + 1, ClosuresCap)
            /\ ev' = "OnClose"
       ELSE /\ ev' = "CloseNoHandler"
            /\ UNCHANGED <<wsStatus, heartbeatIntervalRef, wsRef,
                           reconnectTimeoutRef, reconnectDelay,
                           reconnectAttemptsRef, closures, closuresSinceReset,
                           gaveUp>>
    /\ UNCHANGED <<phase, wsUrlSet, manualTimers>>

\* The reconnect timer fires: connectWebsocket().  The handle keeps the id of
\* the fired timer.  A manual timer (250 ms) pending now was armed after
\* forceCloseWs cancelled every reconnect timer, so a reconnect timer that is
\* pending with it was armed later and with a longer delay: it fires second.
ReconnectTimerFire ==
    /\ UNCHANGED <<fetchVars, diffVars, viewVars>>
    /\ reconnectTimeoutRef = "pending"
    /\ manualTimers = 0 \/ reconnectDelay < MANUAL_RECONNECT_DELAY_MS
    /\ reconnectTimeoutRef' = "fired"
    /\ ConnectWebsocket
    /\ ev' = "ReconnectTimer"
    /\ UNCHANGED <<phase, wsUrlSet, heartbeatIntervalRef, reconnectDelay,
                   reconnectAttemptsRef, manualTimers, closures,
                   closuresSinceReset, gaveUp, forceClosed>>

\* document "visibilitychange" with visibilityState "visible".
Visible ==
    /\ UNCHANGED <<fetchVars, diffVars, viewVars>>
    /\ phase = "mounted"
    /\ IF wsRef = 0 \/ readyState[wsRef] = "CLOSED"
       THEN ConnectWebsocket
       ELSE UNCHANGED <<wsStatus, wsRef, readyState, handlers>>
    /\ ev' = "Visible"
    /\ UNCHANGED <<phase, wsUrlSet, heartbeatIntervalRef, reconnectTimeoutRef,
                   reconnectDelay, reconnectAttemptsRef, manualTimers,
                   closures, closuresSinceReset, gaveUp, forceClosed>>

\* handleManualReconnect: forceCloseWs(), then arm the 250 ms timer, whose id
\* is not kept.  The button is rendered whenever the snapshot is shown, which
\* does not depend on the state of the channel.
ManualReconnectClick ==
    /\ UNCHANGED <<fetchVars, diffVars, viewVars>>
    /\ phase = "mounted"
    /\ manualTimers < MaxManualTimers
    /\ ForceCloseWs
    /\ manualTimers' = manualTimers + 1
    /\ ev' = "ManualClick"
    /\ UNCHANGED <<phase, wsUrlSet, reconnectDelay, closures>>

\* The manual timer without the reset of the attempt counter.
ManualTimerFireNoReset ==
    /\ UNCHANGED <<fetchVars, diffVars, viewVars>>
    /\ manualTimers > 0
    /\ manualTimers' = manualTimers - 1
    /\ ConnectWebsocket
    /\ ev' = "ManualTimer"
    /\ UNCHANGED <<phase, wsUrlSet, heartbeatIntervalRef, reconnectTimeoutRef,
                   reconnectDelay, reconnectAttemptsRef, gaveUp,
                   closuresSinceReset, closures, forceClosed>>

\* The 250 ms timer of handleManualReconnect fires:
\* reconnectAttemptsRef.current = 0; connectWebsocket().
ManualTimerFire ==
    /\ UNCHANGED <<fetchVars, diffVars, viewVars>>
    /\ manualTimers > 0
    /\ manualTimers' = manualTimers - 1
    /\ reconnectAttemptsRef' = 0
    /\ gaveUp' = FALSE
    /\ closuresSinceReset' = 0
    /\ ConnectWebsocket
    /\ ev' = "ManualTimer"
    /\ UNCHANGED <<phase, wsUrlSet, heartbeatIntervalRef, reconnectTimeoutRef,
                   reconnectDelay, closures, forceClosed>>

NextWs ==
    \/ Mount
    \/ Unmount
    \/ \E s \in Sockets : SocketOpen(s)
    \/ \E s \in Sockets : SocketClosing(s)
    \/ \E s \in Sockets : SocketClosed(s)
    \/ ReconnectTimerFire
    \/ Visible
    \/ ManualReconnectClick
    \/ ManualTimerFire


\* -------------------------------------------------------- data synchronizer

\* ChartItems of the responses.  A title is the list of its "::"-separated
\* parts, so title.split("::")[0] is its first element.
ItemA == [title |-> <<"A", "x">>, slot |-> 1,
          data |-> <<[label |-> "Done", value |-> 3]>>]
ItemB == [title |-> <<"B", "y">>, slot |-> 1,
          data |-> <<[label |-> "Done", value |-> 1]>>]
ItemLists == {<< >>, <<ItemA>>, <<ItemB>>, <<ItemA, ItemB>>}

\* Response bodies: {"charts": [...]}, a bare array [...], a JSON object
\* without a charts field, and text that is not JSON.
Bodies ==
    [kind : {"object", "array"}, items : ItemLists]
        \cup {[kind |-> "noCharts", items |-> << >>],
              [kind |-> "notJson", items |-> << >>]}

NoResponse == [id |-> 0, kind |-> "none", items |-> << >>, stamp |-> 0]

\* c.title.split("::")[0]
BaseOf(c) == c.title[1]

\* The least index of a non-empty set of indices: the element that
\* Array.prototype.find and indexOf stop at.
FirstOf(S) == CHOOSE k \in S : \A m \in S : k <= m

\* Array.from(new Set(items.map(c => c.title.split("::")[0])))
RECURSIVE Bases(_)
Bases(items) ==
    IF items = << >> THEN << >>
    ELSE LET front == Bases(SubSeq(items, 1, Len(items) - 1))
             b == BaseOf(items[Len(items)])
         IN  IF \E i \in 1..Len(front) : front[i] = b THEN front
             ELSE Append(front, b)

\* prev.filter(b => bases.includes(b))
FilterIncluded(prev, bases) ==
    SelectSeq(prev, LAMBDA b : \E i \in 1..Len(bases) : bases[i] = b)

\* json.charts of a parsed body: undefined (here "undef") unless the body is
\* an object with a charts field.
JsonCharts(body) == IF body.kind = "object" THEN body.items ELSE "undef"

\* json.charts || []
ChartsOrEmpty(body) == IF JsonCharts(body) = "undef" THEN << >> ELSE JsonCharts(body)

\* The catch block of fetchData without the finally block: loading stays.
FetchFailedKeepsLoading(f, why) ==
    /\ inflight' = inflight \ {f}
    /\ loading' = loading
    /\ fev' = why
    /\ UNCHANGED <<charts, chartsRef, lastUpdated, orderedBases, lastDone, prevDone>>

\* The catch and finally blocks of fetchData that clear the snapshot.
FetchFailedClearsCharts(f, why) ==
    /\ inflight' = inflight \ {f}
    /\ loading' = FALSE
    /\ fev' = why
    /\ charts' = << >>
    /\ UNCHANGED <<chartsRef, lastUpdated, orderedBases, lastDone, prevDone>>

\* The catch and finally blocks of fetchData: log, setLoading(false).
\* f is the suspended call that failed.
FetchFailed(f, why) ==
    /\ inflight' = inflight \ {f}
    /\ loading' = FALSE
    /\ fev' = why
    /\ UNCHANGED <<charts, chartsRef, lastUpdated, orderedBases, lastDone, prevDone>>

\* fetchData up to its first await.  ordEmpty is what the closure of the call
\* sees as !orderedBases.length.  With no API URL the call throws before any
\* await and completes at once.  loading is true while the call is suspended:
\* the first revision sets it here, the reconnect revision starts with it
\* true and sets it in handleManualRefreshData.
StartFetch(ordEmpty) ==
    /\ started < MaxFetches
    /\ started' = started + 1
    /\ IF apiUrlSet
       THEN /\ inflight' = inflight \cup {[id |-> started + 1, pc |-> "fetch",
                                           ordEmpty |-> ordEmpty]}
            /\ loading' = TRUE
            /\ fev' = "FetchStart"
       ELSE /\ inflight' = inflight
            /\ loading' = FALSE
            /\ fev' = "FetchFailUrl"
    /\ UNCHANGED <<charts, chartsRef, lastUpdated, orderedBases, lastDone, prevDone>>

InitFetch ==
    /\ rev \in {"reconnect", "first"}
    /\ apiUrlSet \in BOOLEAN
    /\ mountedF = FALSE
    /\ charts = << >>
    /\ chartsRef = << >>
    /\ lastUpdated = 0
    /\ orderedBases = << >>
    /\ loading = TRUE
    /\ inflight = {}
    /\ started = 0
    /\ fev = "none"
    /\ lastDone = NoResponse
    /\ prevDone = NoResponse

\* useEffect(() => { fetchData(); }, []): the closure of the first render has
\* orderedBases = [].
MountFetch ==
    /\ UNCHANGED <<wsVars, diffVars, viewVars>>
    /\ ~mountedF
    /\ mountedF' = TRUE
    /\ StartFetch(TRUE)
    /\ UNCHANGED <<rev, apiUrlSet>>

\* handleManualRefreshData (reconnect revision): setLoading(true);
\* await fetchData(); setLoading(false).  The button is rendered only past
\* the three early returns of the component.
ManualRefresh ==
    /\ UNCHANGED <<wsVars, diffVars, viewVars>>
    /\ rev = "reconnect"
    /\ mountedF
    /\ ~loading /\ charts # << >> /\ orderedBases # << >>
    /\ StartFetch(orderedBases = << >>)
    /\ UNCHANGED <<rev, apiUrlSet, mountedF>>

\* socket.onmessage with a frame {"type": "update"} (first revision):
\* fetchData().
UpdateMessage ==
    /\ UNCHANGED <<wsVars, diffVars, viewVars>>
    /\ rev = "first"
    /\ mountedF
    /\ StartFetch(orderedBases = << >>)
    /\ UNCHANGED <<rev, apiUrlSet, mountedF>>

\* "await fetch(apiUrl)" settles: a 2xx response, a non-2xx response or a
\* network error.
FetchResponds(f, outcome) ==
    /\ UNCHANGED <<wsVars, diffVars, viewVars>>
    /\ f \in inflight
    /\ f.pc = "fetch"
    /\ CASE outcome = "ok" ->
                /\ inflight' = (inflight \ {f}) \cup {[f EXCEPT !.pc = "json"]}
                /\ fev' = "FetchResponse"
                /\ UNCHANGED <<charts, chartsRef, lastUpdated, orderedBases,
                               loading, lastDone, prevDone>>
         [] outcome = "status" -> FetchFailed(f, "FetchFailStatus")
         [] outcome = "network" -> FetchFailed(f, "FetchFailNetwork")
    /\ UNCHANGED <<rev, apiUrlSet, mountedF, started>>

\* The statements of fetchData after "await res.json()" has parsed the body,
\* in the reconnect revision.
FetchParsedReconnect(f, body) ==
    /\ charts' = ChartsOrEmpty(body)
    /\ chartsRef' = ChartsOrEmpty(body)
    /\ lastUpdated' = lastUpdated + 1
    /\ orderedBases' =
           IF f.ordEmpty /\ JsonCharts(body) # "undef" /\ Len(JsonCharts(body)) > 0
           THEN Bases(JsonCharts(body))
           ELSE orderedBases
    /\ fev' = "FetchOk"

\* fetchData that lets the request started last win: a response of an older
\* request is dropped when a newer request has already completed.
FetchParsedFirstNewestRequest(f, body) ==
    IF f.id < lastDone.id
    THEN /\ fev' = "FetchOk"
         /\ UNCHANGED <<charts, chartsRef, lastUpdated, orderedBases>>
    ELSE /\ charts' = ChartsOrEmpty(body)
         /\ chartsRef' = chartsRef
         /\ lastUpdated' = lastUpdated + 1
         /\ orderedBases' = orderedBases
         /\ fev' = "FetchOk"

\* The same statements in the first revision of NotionChart.tsx:
\* json.charts.map throws when the body has no charts field, after the
\* snapshot and the time have been set.
FetchParsedFirst(f, body) ==
    /\ charts' = ChartsOrEmpty(body)
    /\ chartsRef' = chartsRef
    /\ lastUpdated' = lastUpdated + 1
    /\ IF JsonCharts(body) = "undef"
       THEN /\ orderedBases' = orderedBases
            /\ fev' = "FetchThrowAfterSet"
       ELSE /\ orderedBases' =
                   IF Len(orderedBases) > 0
                   THEN FilterIncluded(orderedBases, Bases(JsonCharts(body)))
                   ELSE Bases(JsonCharts(body))
            /\ fev' = "FetchOk"

\* fetchData of part_002 (second revision) that appends the bases of the
\* response to a non-empty orderedBases.
FetchParsedSecondAppending(f, body) ==
    /\ charts' = ChartsOrEmpty(body)
    /\ chartsRef' = chartsRef
    /\ lastUpdated' = lastUpdated + 1
    /\ orderedBases' = orderedBases \o Bases(ChartsOrEmpty(body))
    /\ fev' = "FetchOk"

\* The same statements in the second revision of part_002: the bases are
\* those of json.charts || [], so a body without charts empties the order.
FetchParsedSecond(f, body) ==
    /\ charts' = ChartsOrEmpty(body)
    /\ chartsRef' = chartsRef
    /\ lastUpdated' = lastUpdated + 1
    /\ orderedBases' =
           IF Len(orderedBases) > 0
           THEN FilterIncluded(orderedBases, Bases(ChartsOrEmpty(body)))
           ELSE Bases(ChartsOrEmpty(body))
    /\ fev' = "FetchOk"

\* "await res.json()" settles with the body the server sent.
JsonDone(f, body) ==
    /\ UNCHANGED <<wsVars, diffVars, viewVars>>
    /\ f \in inflight
    /\ f.pc = "json"
    /\ IF body.kind = "notJson"
       THEN FetchFailed(f, "FetchFailJson")
       ELSE /\ inflight' = inflight \ {f}
            /\ loading' = FALSE
            /\ prevDone' = lastDone
            /\ lastDone' = [id |-> f.id, kind |-> body.kind,
                            items |-> body.items, stamp |-> lastUpdated + 1]
            /\ IF rev = "reconnect"
               THEN FetchParsedReconnect(f, body)
               ELSE FetchParsedFirst(f, body)
    /\ UNCHANGED <<rev, apiUrlSet, mountedF, started>>

\* A ChartItem of a push message: ItemA with a new value.
ItemA2 == [title |-> <<"A", "x">>, slot |-> 1,
           data |-> <<[label |-> "Done", value |-> 5]>>]
PushLists == {<< >>, <<ItemA2>>, <<ItemA2, ItemB>>}

\* Frames of the push channel: text that is not JSON, {"type": "pong"},
\* {"type": "update"} and {"type": "update", "charts": {"charts": [...]}}.
Frames ==
    {[kind |-> "notJson", items |-> << >>],
     [kind |-> "pong", items |-> << >>],
     [kind |-> "update", items |-> << >>]}
        \cup [kind : {"updateCharts"}, items : PushLists]

\* A socket is OPEN and still has its onmessage handler.
SocketDelivers == \E s \in Sockets : readyState[s] = "OPEN" /\ handlers[s]

\* chartsRef.current.map(chart => updated.find(c => c.title === chart.title
\*                                   && c.slot === chart.slot) || chart)
MergeUpdated(current, updated) ==
    [i \in 1..Len(current) |->
        LET hits == {k \in 1..Len(updated) :
                        /\ updated[k].title = current[i].title
                        /\ updated[k].slot = current[i].slot}
        IN  IF hits = {} THEN current[i] ELSE updated[FirstOf(hits)]]

\* ws.onmessage that answers a frame it cannot parse by emptying the snapshot.
PushMessageClearsOnError(frame) ==
    /\ UNCHANGED <<wsVars, diffVars, viewVars>>
    /\ rev = "reconnect"
    /\ mountedF
    /\ SocketDelivers
    /\ CASE frame.kind = "notJson" ->
                /\ fev' = "FrameNotJson"
                /\ charts' = << >>
                /\ UNCHANGED <<chartsRef, lastUpdated>>
         [] frame.kind \in {"pong", "update"} ->
                /\ fev' = IF frame.kind = "pong" THEN "FramePong" ELSE "FrameUpdate"
                /\ UNCHANGED <<charts, chartsRef, lastUpdated>>
         [] frame.kind = "updateCharts" ->
                /\ lastUpdated < MaxFetches
                /\ chartsRef' = MergeUpdated(chartsRef, frame.items)
                /\ charts' = MergeUpdated(chartsRef, frame.items)
                /\ lastUpdated' = lastUpdated + 1
                /\ fev' = "FrameMerged"
    /\ lastDone' = [id |-> 0, kind |-> frame.kind, items |-> frame.items,
                    stamp |-> lastUpdated']
    /\ UNCHANGED <<rev, apiUrlSet, mountedF, orderedBases, loading, inflight,
                   started, prevDone>>

\* ws.onmessage of the reconnect revision.  A frame that JSON.parse rejects
\* is logged by the catch block; a pong, and an update without
\* charts.charts, return early; an update with charts.charts is merged into
\* chartsRef.current by title and slot.  lastDone records the frame.
PushMessage(frame) ==
    /\ UNCHANGED <<wsVars, diffVars, viewVars>>
    /\ rev = "reconnect"
    /\ mountedF
    /\ SocketDelivers
    /\ CASE frame.kind = "notJson" ->
                /\ fev' = "FrameNotJson"
                /\ UNCHANGED <<charts, chartsRef, lastUpdated>>
         [] frame.kind \in {"pong", "update"} ->
                /\ fev' = IF frame.kind = "pong" THEN "FramePong" ELSE "FrameUpdate"
                /\ UNCHANGED <<charts, chartsRef, lastUpdated>>
         [] frame.kind = "updateCharts" ->
                /\ lastUpdated < MaxFetches
                /\ chartsRef' = MergeUpdated(chartsRef, frame.items)
                /\ charts' = MergeUpdated(chartsRef, frame.items)
                /\ lastUpdated' = lastUpdated + 1
                /\ fev' = "FrameMerged"
    /\ lastDone' = [id |-> 0, kind |-> frame.kind, items |-> frame.items,
                    stamp |-> lastUpdated']
    /\ UNCHANGED <<rev, apiUrlSet, mountedF, orderedBases, loading, inflight,
                   started, prevDone>>

\* socket.onmessage of the first revision with a frame that is not an update:
\* JSON.parse throws into the empty catch block, or msg.type is not "update".
OtherMessage(frame) ==
    /\ UNCHANGED <<wsVars, diffVars, viewVars>>
    /\ rev = "first"
    /\ mountedF
    /\ SocketDelivers
    /\ frame.kind \in {"notJson", "pong"}
    /\ fev' = IF frame.kind = "notJson" THEN "FrameNotJson" ELSE "FramePong"
    /\ UNCHANGED <<rev, apiUrlSet, mountedF, charts, chartsRef, lastUpdated,
                   orderedBases, loading, inflight, started, lastDone, prevDone>>

NextFetch ==
    \/ MountFetch
    \/ ManualRefresh
    \/ UpdateMessage
    \/ \E frame \in Frames : PushMessage(frame)
    \/ \E frame \in Frames : OtherMessage(frame)
    \/ \E f \in inflight, o \in {"ok", "status", "network"} : FetchResponds(f, o)
    \/ \E f \in inflight, body \in Bodies : JsonDone(f, body)

\* ------------------------------------------------ updateChartsByChanges

\* The empty changes map {}.
NoChanges == [x \in {} |-> 0]

\* Titles and labels of the snapshots, and one of each that no snapshot has.
TitleA == <<"A", "x">>
TitleB == <<"B", "y">>
TitleC == <<"C", "z">>
DiffTitles == {TitleA, TitleB, TitleC}
DiffLabels == {"Done", "Other"}
DiffValues == {0, 7}

\* The snapshots updateChartsByChanges starts from: two charts; two items with
\* the same title, one of them a subtask; no chart at all.
DiffSnapshots ==
    { << [title |-> TitleA, slot |-> 1,
          data |-> <<[label |-> "Done", value |-> 3],
                     [label |-> "Todo", value |-> 1]>>],
         [title |-> TitleB, slot |-> 2,
          data |-> <<[label |-> "Todo", value |-> 2],
                     [label |-> "Done", value |-> 0]>>] >>,
      << [title |-> TitleA, slot |-> 1,
          data |-> <<[label |-> "Done", value |-> 3]>>],
         [title |-> TitleA, slot |-> NullSlot,
          data |-> <<[label |-> "Done", value |-> 1]>>] >>,
      << >> }

\* The changes maps a message can carry: { [title]: { [label]: number } }.
LabelMaps == UNION {[ls -> DiffValues] : ls \in SUBSET DiffLabels}
ChangesMaps == UNION {[ts -> LabelMaps] : ts \in SUBSET DiffTitles}

\* updateChartsByChanges that also appends the labels the chart lacks.
UpdateChartsAppendingLabels(prevCharts, changes) ==
    [i \in 1..Len(prevCharts) |->
        LET chart == prevCharts[i] IN
        IF chart.title \in DOMAIN changes
        THEN LET ch == changes[chart.title]
                 has == {chart.data[j].label : j \in 1..Len(chart.data)}
                 upd == [j \in 1..Len(chart.data) |->
                            LET d == chart.data[j] IN
                            IF d.label \in DOMAIN ch
                            THEN [label |-> d.label, value |-> ch[d.label]]
                            ELSE d]
             IN  [chart EXCEPT !.data =
                     IF "Other" \in DOMAIN ch /\ "Other" \notin has
                     THEN Append(upd, [label |-> "Other", value |-> ch["Other"]])
                     ELSE upd]
        ELSE chart]

\* updateChartsByChanges whose test of the new value is a truthiness test
\* (changes[title][label] instead of changes[title][label] !== undefined).
UpdateChartsSkippingZero(prevCharts, changes) ==
    [i \in 1..Len(prevCharts) |->
        LET chart == prevCharts[i] IN
        IF chart.title \in DOMAIN changes
        THEN [chart EXCEPT !.data =
                 [j \in 1..Len(chart.data) |->
                     LET d == chart.data[j] IN
                     IF d.label \in DOMAIN changes[chart.title]
                        /\ changes[chart.title][d.label] # 0
                     THEN [label |-> d.label, value |-> changes[chart.title][d.label]]
                     ELSE d]]
        ELSE chart]

\* The updater passed to setCharts by updateChartsByChanges:
\* prevCharts.map(chart => changes[chart.title] ? {...chart, data: ...} : chart)
UpdateChartsByChanges(prevCharts, changes) ==
    [i \in 1..Len(prevCharts) |->
        LET chart == prevCharts[i] IN
        IF chart.title \in DOMAIN changes
        THEN [chart EXCEPT !.data =
                 [j \in 1..Len(chart.data) |->
                     LET d == chart.data[j] IN
                     IF d.label \in DOMAIN changes[chart.title]
                     THEN [label |-> d.label, value |-> changes[chart.title][d.label]]
                     ELSE d]]
        ELSE chart]

\* The snapshot is any of DiffSnapshots (set by an earlier fetch).
InitDiff ==
    /\ rev = "diff"
    /\ apiUrlSet = TRUE
    /\ mountedF = TRUE
    /\ charts \in DiffSnapshots
    /\ chartsRef = << >>
    /\ lastUpdated = 0
    /\ orderedBases = << >>
    /\ loading = FALSE
    /\ inflight = {}
    /\ started = 0
    /\ fev = "none"
    /\ lastDone = NoResponse
    /\ prevDone = NoResponse
    /\ lastChanges = NoChanges
    /\ beforeDiff = << >>

\* updateChartsByChanges(changes): setCharts(updater); setLastUpdated(new Date()).
ApplyChanges(changes) ==
    /\ UNCHANGED <<wsVars, viewVars>>
    /\ rev = "diff"
    /\ lastUpdated < MaxDiffs
    /\ charts' = UpdateChartsByChanges(charts, changes)
    /\ lastUpdated' = lastUpdated + 1
    /\ lastChanges' = changes
    /\ beforeDiff' = charts
    /\ fev' = "ApplyChanges"
    /\ UNCHANGED <<rev, apiUrlSet, mountedF, chartsRef, orderedBases, loading,
                   inflight, started, lastDone, prevDone>>

\* The labels of the points of a chart.
LabelsOf(chart) == {chart.data[j].label : j \in 1..Len(chart.data)}

\* The changes map names only titles of the snapshot, and under a title only
\* labels that a chart of that title has.
ReferencesOnly(snapshot, changes) ==
    \A t \in DOMAIN changes :
        /\ \E i \in 1..Len(snapshot) : snapshot[i].title = t
        /\ \A l \in DOMAIN changes[t] :
               \E i \in 1..Len(snapshot) :
                   snapshot[i].title = t /\ l \in LabelsOf(snapshot[i])

\* The value the snapshot holds under a title and a label: that of the first
\* chart of the title that has the label, and of its first point so labelled.
ValueIn(snapshot, t, l) ==
    LET i == FirstOf({k \in 1..Len(snapshot) :
                    snapshot[k].title = t /\ l \in LabelsOf(snapshot[k])})
        j == FirstOf({k \in 1..Len(snapshot[i].data) : snapshot[i].data[k].label = l})
    IN  snapshot[i].data[j].value

\* The changes map with the keys of changes and the values of the snapshot.
InverseChanges(snapshot, changes) ==
    [t \in DOMAIN changes |->
        [l \in DOMAIN changes[t] |-> ValueIn(snapshot, t, l)]]

\* A second updateChartsByChanges call, whose map carries the values the
\* snapshot held before the call made last.
RevertChanges ==
    /\ UNCHANGED <<wsVars, viewVars>>
    /\ rev = "diff"
    /\ fev = "ApplyChanges"
    /\ ReferencesOnly(beforeDiff, lastChanges)
    /\ charts' = UpdateChartsByChanges(charts, InverseChanges(beforeDiff, lastChanges))
    /\ lastUpdated' = lastUpdated + 1
    /\ fev' = "RevertChanges"
    /\ UNCHANGED <<lastChanges, beforeDiff>>
    /\ UNCHANGED <<rev, apiUrlSet, mountedF, chartsRef, orderedBases, loading,
                   inflight, started, lastDone, prevDone>>

\* chart.data.reduce((sum, d) => sum + (d?.value ?? 0), 0)
RECURSIVE TotalOf(_)
TotalOf(data) ==
    IF data = << >> THEN 0
    ELSE TotalOf(SubSeq(data, 1, Len(data) - 1)) + data[Len(data)].value

\* Math.round(x) and x.toFixed(0) of x = value / total * 100 for integers
\* value >= 0 and total > 0: the nearest integer, a half rounded up.
RoundedPercent(value, total) == (200 * value + total) \div (2 * total)

\* The percentage of the tooltip label in part_004:
\* ((value / total) * 100).toFixed(0), where 0 / 0 is NaN.
PercentUnguarded(value, total) ==
    IF total = 0 THEN NaNPercent ELSE RoundedPercent(value, total)

\* The percentage of the tooltip label in the first revision of
\* NotionChart.tsx: total > 0 ? Math.round((value / total) * 100) : 0.
PercentGuarded(value, total) ==
    IF total > 0 THEN RoundedPercent(value, total) ELSE 0

\* The percentage the tooltip of a point shows in the revision modelled.
DisplayedPercent(value, total) ==
    IF rev = "diff" THEN PercentUnguarded(value, total)
    ELSE PercentGuarded(value, total)

NextDiff ==
    \/ \E changes \in ChangesMaps : ApplyChanges(changes)
    \/ RevertChanges

\* ------------------------------------ selection, order and projection

\* No toggle and no drag has happened yet.
NoView == [ev |-> "none", base |-> "", over |-> "", selected |-> << >>,
           ordered |-> << >>, baseList |-> << >>]

\* rev = "toggleAll" is the second revision of part_000 (lines 323-574), whose
\* "all" checkbox switches between every base and none and which has no
\* orderedBases.

ItemC == [title |-> <<"C", "z">>, slot |-> 1,
          data |-> <<[label |-> "Done", value |-> 2]>>]

\* The snapshots a fetchData call of the selection model loads.
ViewLists == {<< >>, <<ItemA>>, <<ItemA, ItemB>>, <<ItemB, ItemC>>,
              <<ItemA, ItemB, ItemC>>}

\* seq.includes(x)
Includes(seq, x) == \E i \in 1..Len(seq) : seq[i] = x

\* seq.indexOf(x) + 1, so 0 stands for the -1 of an absent element.
IndexOf(seq, x) ==
    IF Includes(seq, x) THEN FirstOf({i \in 1..Len(seq) : seq[i] = x}) ELSE 0

\* const baseList = Array.from(new Set(charts.map(c => c.title.split("::")[0])))
BaseList == Bases(charts)

\* allSelected (first and reconnect revisions)
AllSelected ==
    Includes(selectedBases, "all") \/ Len(selectedBases) = Len(BaseList)

\* isAllSelected (part_000)
IsAllSelected == Len(selectedBases) = Len(BaseList)

\* charts.filter(c => selectedBases.includes(c.title.split("::")[0]))
FilterBySelection(items) ==
    SelectSeq(items, LAMBDA c : Includes(selectedBases, BaseOf(c)))

\* filteredCharts of each revision.
FilteredCharts ==
    CASE rev = "reconnect" ->
            IF AllSelected THEN charts ELSE FilterBySelection(charts)
      [] rev = "toggleAll" ->
            IF IsAllSelected \/ Len(selectedBases) = 0
            THEN charts ELSE FilterBySelection(charts)
      [] OTHER ->
            IF Includes(selectedBases, "all")
            THEN charts ELSE FilterBySelection(charts)

\* Object.keys(grouped): the bases that have a chart in filteredCharts, in
\* the order of their first chart.
GroupedBases == Bases(FilteredCharts)

\* displayedBases: orderedBases.filter(b => allSelected || selectedBases.includes(b))
\* in the reconnect revision and the second revision of part_002, with
\* selectedBases.includes("all") in place of allSelected in the first revision.
DisplayedBases ==
    SelectSeq(orderedBases,
              LAMBDA b : \/ IF rev \in {"reconnect", "second"} THEN AllSelected
                            ELSE Includes(selectedBases, "all")
                         \/ Includes(selectedBases, b))

\* What the component returns: the loading text, the no-data text, the
\* no-bases-selected text, or the container with one group per listed base
\* (the second revision of part_002 skips a base without charts).
Rendered ==
    IF loading THEN [kind |-> "loading", bases |-> << >>]
    ELSE IF charts = << >> THEN [kind |-> "noData", bases |-> << >>]
    ELSE CASE rev = "reconnect" ->
                 IF DisplayedBases = << >>
                 THEN [kind |-> "noBases", bases |-> << >>]
                 ELSE [kind |-> "groups", bases |-> DisplayedBases]
           [] rev = "toggleAll" ->
                 [kind |-> "groups", bases |-> GroupedBases]
           [] rev = "second" ->
                 IF DisplayedBases = << >>
                 THEN [kind |-> "noBases", bases |-> << >>]
                 ELSE [kind |-> "groups",
                       bases |-> SelectSeq(DisplayedBases,
                                     LAMBDA b : Includes(GroupedBases, b))]
           [] OTHER ->
                 IF selectedBases = << >> \/ DisplayedBases = << >>
                 THEN [kind |-> "noBases", bases |-> << >>]
                 ELSE [kind |-> "groups", bases |-> DisplayedBases]

\* The dropdown with the checkboxes is rendered: past the early returns.
ControlsRendered ==
    /\ Rendered.kind \notin {"loading", "noData"}
    /\ rev = "reconnect" => Rendered.kind = "groups"

\* toggleBase that keeps an empty list when the last base is toggled off.
ToggledNoFallback(selected, baseList, base) ==
    IF base = "all" THEN <<"all">>
    ELSE IF Includes(selected, "all") THEN <<base>>
    ELSE IF Includes(selected, base)
    THEN SelectSeq(selected, LAMBDA b : b # base)
    ELSE LET added == Append(selected, base)
         IN  IF Len(added) = Len(baseList) THEN <<"all">> ELSE added

\* The list toggleBase passes to setSelectedBases (first and reconnect
\* revisions).
Toggled(selected, baseList, base) ==
    IF base = "all" THEN <<"all">>
    ELSE IF Includes(selected, "all") THEN <<base>>
    ELSE IF Includes(selected, base)
    THEN LET filtered == SelectSeq(selected, LAMBDA b : b # base)
         IN  IF Len(filtered) > 0 THEN filtered ELSE <<"all">>
    ELSE LET added == Append(selected, base)
         IN  IF Len(added) = Len(baseList) THEN <<"all">> ELSE added

\* The list toggleBase passes to setSelectedBases in part_000.
ToggledAll(selected, baseList, base) ==
    IF base = "all"
    THEN IF Len(selected) = Len(baseList) THEN << >> ELSE baseList
    ELSE IF Includes(selected, base)
    THEN SelectSeq(selected, LAMBDA b : b # base)
    ELSE Append(selected, base)

\* arrayMove that exchanges the two elements.
ArrayMoveSwap(items, from, to) ==
    LET n == Len(items)
        f == IF from = 0 THEN n ELSE from
        t == IF to = 0 THEN n ELSE to
    IN  [i \in 1..n |-> IF i = f THEN items[t] ELSE IF i = t THEN items[f]
                                                    ELSE items[i]]

\* arrayMove of @dnd-kit/sortable: a copy of the array from which the element
\* at from is removed and reinserted at to.  from and to are indexOf + 1; the
\* -1 of an absent element (here 0) addresses the last position.
ArrayMove(items, from, to) ==
    LET n == Len(items)
        f == IF from = 0 THEN n ELSE from
        t == IF to = 0 THEN n ELSE to
        rest == [i \in 1..(n - 1) |-> IF i < f THEN items[i] ELSE items[i + 1]]
    IN  [i \in 1..n |-> IF i < t THEN rest[i]
                        ELSE IF i = t THEN items[f] ELSE rest[i - 1]]

\* The selection model starts like the data synchronizer, with the mount
\* fetch under way; part_000 starts with useState([]).
InitView ==
    /\ rev \in {"first", "reconnect", "second", "toggleAll"}
    /\ apiUrlSet = TRUE
    /\ mountedF = TRUE
    /\ charts = << >>
    /\ chartsRef = << >>
    /\ lastUpdated = 0
    /\ orderedBases = << >>
    /\ loading = TRUE
    /\ inflight = {}
    /\ started = 0
    /\ fev = "none"
    /\ lastDone = NoResponse
    /\ prevDone = NoResponse
    /\ selectedBases = IF rev = "toggleAll" THEN << >> ELSE <<"all">>
    /\ lastView = NoView

\* A fetchData call runs to its end with a 2xx response and the body
\* {"charts": items}.  The mount effect starts the first call; later calls
\* are started by an update frame, and in the reconnect revision by the
\* refresh button, which is rendered past the early returns.
SnapshotLoaded(items) ==
    /\ UNCHANGED <<wsVars, diffVars>>
    /\ lastUpdated < MaxLoads
    /\ rev = "reconnect" => (loading \/ ControlsRendered)
    /\ LET f == [id |-> 0, pc |-> "json", ordEmpty |-> orderedBases = << >>]
           body == [kind |-> "object", items |-> items]
       IN  CASE rev = "reconnect" -> FetchParsedReconnect(f, body)
             [] rev = "first" -> FetchParsedFirst(f, body)
             [] rev = "second" -> FetchParsedSecond(f, body)
             [] rev = "toggleAll" ->
                    /\ charts' = ChartsOrEmpty(body)
                    /\ lastUpdated' = lastUpdated + 1
                    /\ fev' = "FetchOk"
                    /\ UNCHANGED <<chartsRef, orderedBases>>
    /\ loading' = FALSE
    /\ lastView' = [NoView EXCEPT !.ev = "Load", !.ordered = orderedBases]
    /\ UNCHANGED <<rev, apiUrlSet, mountedF, inflight, started, lastDone,
                   prevDone, selectedBases>>

\* A fetchData call runs to its end with a network error, a non-2xx response
\* or a body that is not JSON: the catch block logs, finally clears loading.
SnapshotFailed ==
    /\ UNCHANGED <<wsVars, diffVars>>
    /\ rev = "reconnect" => (loading \/ ControlsRendered)
    /\ loading' = FALSE
    /\ fev' = "FetchFailStatus"
    /\ lastView' = [NoView EXCEPT !.ev = "Load", !.ordered = orderedBases]
    /\ UNCHANGED <<rev, apiUrlSet, mountedF, charts, chartsRef, lastUpdated,
                   orderedBases, inflight, started, lastDone, prevDone,
                   selectedBases>>

\* toggleBase(base), called by the checkbox of "all" or of a base of baseList.
ToggleBase(base) ==
    /\ UNCHANGED <<wsVars, diffVars, fetchVars>>
    /\ ControlsRendered
    /\ base = "all" \/ Includes(BaseList, base)
    /\ selectedBases' =
           IF rev = "toggleAll" THEN ToggledAll(selectedBases, BaseList, base)
           ELSE Toggled(selectedBases, BaseList, base)
    /\ lastView' = [ev |-> "Toggle", base |-> base, over |-> "",
                    selected |-> selectedBases, ordered |-> orderedBases,
                    baseList |-> BaseList]

\* handleDragEnd(event): active is a rendered group, over is a rendered group
\* or null (here "null").
HandleDragEnd(active, over) ==
    /\ UNCHANGED <<wsVars, diffVars>>
    /\ rev \in {"first", "reconnect", "second"}
    /\ Rendered.kind = "groups"
    /\ Includes(Rendered.bases, active)
    /\ over = "null" \/ Includes(Rendered.bases, over)
    /\ orderedBases' =
           IF over # "null" /\ active # over
           THEN ArrayMove(orderedBases, IndexOf(orderedBases, active),
                          IndexOf(orderedBases, over))
           ELSE orderedBases
    /\ lastView' = [ev |-> "Drag", base |-> active, over |-> over,
                    selected |-> selectedBases, ordered |-> orderedBases,
                    baseList |-> BaseList]
    /\ UNCHANGED <<rev, apiUrlSet, mountedF, charts, chartsRef, lastUpdated,
                   loading, inflight, started, fev, lastDone, prevDone,
                   selectedBases>>

BaseNames == {"A", "B", "C"}

NextView ==
    \/ \E items \in ViewLists : SnapshotLoaded(items)
    \/ SnapshotFailed
    \/ \E base \in BaseNames \cup {"all"} : ToggleBase(base)
    \/ \E active \in BaseNames, over \in BaseNames \cup {"null"} :
           HandleDragEnd(active, over)

\* -------------------------------------------------- subtask fold (part_001)
\* rev = "fold" is src/unnamed/part_001: a multi-select of bases, charts
\* grouped by base and slot, the items with slot null folded into a parent.

\* lastView of this revision: the last event, and for a render what it
\* returned and the charts and selection it was called with.
NoFold == [ev |-> "none", out |-> << >>, before |-> << >>,
           selected |-> << >>]

ParentA == [title |-> <<"A", "p">>, slot |-> 1,
            data |-> <<[label |-> "Done", value |-> 3],
                       [label |-> "Todo", value |-> 1]>>]
ParentA2 == [title |-> <<"A", "q">>, slot |-> 2,
             data |-> <<[label |-> "Done", value |-> 5]>>]
TwinA == [title |-> <<"A", "r">>, slot |-> 1,
          data |-> <<[label |-> "Done", value |-> 7]>>]
SubA == [title |-> <<"A", "s">>, slot |-> NullSlot,
         data |-> <<[label |-> "Done", value |-> 2],
                    [label |-> "New", value |-> 4]>>]
ParentB == [title |-> <<"B", "y">>, slot |-> 1,
            data |-> <<[label |-> "Done", value |-> 1]>>]

\* The bodies json.charts of the responses.
FoldLists == {<< >>,
              <<ParentA, SubA>>,
              <<ParentA, ParentB, SubA>>,
              <<ParentA2, ParentA, SubA, SubA, ParentB>>,
              <<SubA, ParentA>>,
              <<ParentA, SubA, TwinA>>}

\* The greatest element of a set of integers.
LastOf(S) == CHOOSE k \in S : \A m \in S : m <= k

\* A point that is pushed to combinedData by reference would keep the place
\* of the point of charts it is: <<item, point>>.
SharePoint(d, i, j) == [label |-> d.label, value |-> d.value, src |-> <<i, j>>]

\* combinedData.push({ ...d }): a new object with the label and the value of
\* point j of item i, that is no point of charts.
CopyPoint(d, i, j) == [label |-> d.label, value |-> d.value, src |-> << >>]

\* filteredCharts, as the indices of its items in charts.
FilteredIdx(items, selected) ==
    SelectSeq([i \in 1..Len(items) |-> i],
              LAMBDA i : \/ Includes(selected, "all")
                         \/ Includes(selected, BaseOf(items[i])))

\* The items of filteredCharts.
FilteredItems(items, selected) ==
    LET F == FilteredIdx(items, selected)
    IN  [k \in 1..Len(F) |-> items[F[k]]]

\* The keys of groupedByBaseAndSlot[base] after the first pass: the slots of
\* the items of the base whose slot is not null.
SlotKeys(fitems, base) ==
    {fitems[k].slot : k \in {k \in 1..Len(fitems) :
                               /\ BaseOf(fitems[k]) = base
                               /\ fitems[k].slot # NullSlot}}

\* The parent of groupedByBaseAndSlot[base][slot] after the first pass: each
\* item with the slot assigns the entry, so the last one stays.
ParentAt(fitems, base, slot) ==
    LastOf({k \in 1..Len(fitems) :
              BaseOf(fitems[k]) = base /\ fitems[k].slot = slot})

\* The item prev the loop from index - 1 down to 0 stops at, or 0 when the
\* loop ends without one.
NearestParent(fitems, k) ==
    LET prev == {p \in 1..(k - 1) :
                   /\ fitems[p].slot # NullSlot
                   /\ BaseOf(fitems[p]) = BaseOf(fitems[k])}
    IN  IF prev = {} THEN 0 ELSE LastOf(prev)

\* The subtasks of groupedByBaseAndSlot[base][slot] after the second pass:
\* the items with slot null whose prev has the slot, in the order of
\* filteredCharts.
SubtasksAt(fitems, base, slot) ==
    SelectSeq([k \in 1..Len(fitems) |-> k],
              LAMBDA k : /\ fitems[k].slot = NullSlot
                         /\ BaseOf(fitems[k]) = base
                         /\ NearestParent(fitems, k) # 0
                         /\ fitems[NearestParent(fitems, k)].slot = slot)

\* The entries of an object sorted by Number(slotA) - Number(slotB).
RECURSIVE SortedSlots(_)
SortedSlots(S) ==
    IF S = {} THEN << >>
    ELSE <<FirstOf(S)>> \o SortedSlots(S \ {FirstOf(S)})

\* groupedByBaseAndSlot after the three passes: for each base of
\* filteredCharts, in the order of its first item, the entries in slot order,
\* parent and subtasks as positions of filteredCharts.
GroupedByBaseAndSlot(fitems) ==
    LET bases == Bases(fitems)
    IN  [b \in 1..Len(bases) |->
            LET slots == SortedSlots(SlotKeys(fitems, bases[b]))
            IN  [base |-> bases[b],
                 slots |-> [n \in 1..Len(slots) |->
                     [slot |-> slots[n],
                      parent |-> ParentAt(fitems, bases[b], slots[n]),
                      subtasks |-> SubtasksAt(fitems, bases[b], slots[n])]]]]

\* The points of item i of charts with their places.
PointsOf(items, i) ==
    [j \in 1..Len(items[i].data) |-> [d |-> items[i].data[j], i |-> i, j |-> j]]

\* subtasks.forEach(sub => sub.data.forEach(...)): the points in the order
\* they are visited.
RECURSIVE SubtaskPoints(_, _)
SubtaskPoints(items, subs) ==
    IF subs = << >> THEN << >>
    ELSE PointsOf(items, Head(subs)) \o SubtaskPoints(items, Tail(subs))

\* The body of sub.data.forEach: existing.value += sd.value for the first
\* point of combinedData with the label, combinedData.push({ ...sd }) without.
AddPoint(combined, p) ==
    LET hits == {k \in 1..Len(combined) : combined[k].label = p.d.label}
    IN  IF hits # {}
        THEN [combined EXCEPT ![FirstOf(hits)].value = @ + p.d.value]
        ELSE Append(combined, CopyPoint(p.d, p.i, p.j))

RECURSIVE FoldPoints(_, _)
FoldPoints(combined, points) ==
    IF points = << >> THEN combined
    ELSE FoldPoints(AddPoint(combined, Head(points)), Tail(points))

\* combinedData of the entry with the parent item and the subtask items
\* (indices of charts).
CombinedData(items, parent, subs) ==
    FoldPoints([j \in 1..Len(items[parent].data) |->
                   CopyPoint(items[parent].data[j], parent, j)],
               SubtaskPoints(items, subs))

\* The value the tooltip looks up by label: the first point with the label.
ValueByLabel(combined, label) ==
    combined[FirstOf({k \in 1..Len(combined) : combined[k].label = label})].value

\* What the component returns past the early returns: for each base its
\* heading and for each entry the chart of combinedData with the total and
\* the percentages of the tooltip.
Projection(items, selected) ==
    LET F == FilteredIdx(items, selected)
        groups == GroupedByBaseAndSlot(FilteredItems(items, selected))
    IN  [b \in 1..Len(groups) |->
            [base |-> groups[b].base,
             charts |-> [n \in 1..Len(groups[b].slots) |->
                 LET e == groups[b].slots[n]
                     combined == CombinedData(items, F[e.parent],
                                     [m \in 1..Len(e.subtasks) |->
                                          F[e.subtasks[m]]])
                     total == TotalOf(combined)
                 IN  [key |-> e.slot,
                      title |-> items[F[e.parent]].title[2],
                      cells |-> combined,
                      total |-> total,
                      percent |-> [j \in 1..Len(combined) |->
                          PercentGuarded(
                              ValueByLabel(combined, combined[j].label),
                              total)]]]]]

\* The points of combinedData of all charts of a projection.
CellsOf(proj) ==
    UNION {UNION {{proj[b].charts[n].cells[j] :
                      j \in 1..Len(proj[b].charts[n].cells)} :
                     n \in 1..Len(proj[b].charts)} : b \in 1..Len(proj)}

\* charts after the render that built proj: a point of charts that is also a
\* point of a combinedData has the value the fold left in it.
AfterRender(items, proj) ==
    [i \in 1..Len(items) |->
        [items[i] EXCEPT !.data =
            [j \in 1..Len(items[i].data) |->
                IF \E c \in CellsOf(proj) : c.src = <<i, j>>
                THEN [items[i].data[j] EXCEPT !.value =
                         (CHOOSE c \in CellsOf(proj) : c.src = <<i, j>>).value]
                ELSE items[i].data[j]]]]

\* What is drawn of a projection: labels, values, totals and percentages.
Drawn(proj) ==
    [b \in 1..Len(proj) |->
        [base |-> proj[b].base,
         charts |-> [n \in 1..Len(proj[b].charts) |->
             LET c == proj[b].charts[n]
             IN  [key |-> c.key, title |-> c.title, total |-> c.total,
                  percent |-> c.percent,
                  data |-> [j \in 1..Len(c.cells) |->
                      [label |-> c.cells[j].label,
                       value |-> c.cells[j].value]]]]]]

InitFold ==
    /\ rev = "fold"
    /\ apiUrlSet = TRUE
    /\ mountedF = TRUE
    /\ charts = << >>
    /\ chartsRef = << >>
    /\ lastUpdated = 0
    /\ orderedBases = << >>
    /\ loading = TRUE
    /\ inflight = {}
    /\ started = 0
    /\ fev = "none"
    /\ lastDone = NoResponse
    /\ prevDone = NoResponse
    /\ selectedBases = <<"all">>
    /\ lastView = NoFold

\* A fetchData call of part_001 runs to its end with a 2xx response and the
\* body {"charts": items}; the mount effect and every update frame start one.
FoldLoaded(items) ==
    /\ UNCHANGED <<wsVars, diffVars>>
    /\ rev = "fold"
    /\ lastUpdated < MaxLoads
    /\ charts' = items
    /\ lastUpdated' = lastUpdated + 1
    /\ loading' = FALSE
    /\ fev' = "FetchOk"
    /\ lastView' = [NoFold EXCEPT !.ev = "Load"]
    /\ UNCHANGED <<rev, apiUrlSet, mountedF, chartsRef, orderedBases,
                   inflight, started, lastDone, prevDone, selectedBases>>

\* A fetchData call of part_001 runs to its end with a network error or a
\* non-2xx response: the catch block logs, finally clears loading.
FoldFailed ==
    /\ UNCHANGED <<wsVars, diffVars>>
    /\ rev = "fold"
    /\ loading' = FALSE
    /\ fev' = "FetchFailStatus"
    /\ lastView' = [NoFold EXCEPT !.ev = "Load"]
    /\ UNCHANGED <<rev, apiUrlSet, mountedF, charts, chartsRef, lastUpdated,
                   orderedBases, inflight, started, lastDone, prevDone,
                   selectedBases>>

\* The selections the select element can report: the options "all" and the
\* bases of baseList, in the order of the options.
Selections == {<< >>, <<"all">>, <<"A">>, <<"B">>, <<"A", "B">>,
               <<"all", "A">>}

\* handleBaseChange(e) with the selected options of the select element,
\* which is rendered past the early returns.
HandleBaseChange(selected) ==
    /\ UNCHANGED <<wsVars, diffVars>>
    /\ rev = "fold"
    /\ ~loading /\ charts # << >>
    /\ \A i \in 1..Len(selected) :
           selected[i] = "all" \/ Includes(BaseList, selected[i])
    /\ selectedBases' = IF Includes(selected, "all") THEN <<"all">>
                        ELSE selected
    /\ lastView' = [NoFold EXCEPT !.ev = "Select", !.selected = selectedBases]
    /\ UNCHANGED <<rev, apiUrlSet, mountedF, charts, chartsRef, lastUpdated,
                   orderedBases, loading, inflight, started, fev, lastDone,
                   prevDone>>

\* One call of the component function past the early returns: it builds
\* filteredCharts, groupedByBaseAndSlot and the combinedData of every entry.
Render ==
    /\ UNCHANGED <<wsVars, diffVars>>
    /\ rev = "fold"
    /\ ~loading /\ charts # << >>
    /\ LET proj == Projection(charts, selectedBases)
       IN  /\ charts' = AfterRender(charts, proj)
           /\ lastView' = [ev |-> "Render", out |-> Drawn(proj),
                           before |-> charts, selected |-> selectedBases]
    /\ UNCHANGED <<rev, apiUrlSet, mountedF, chartsRef, lastUpdated,
                   orderedBases, loading, inflight, started, fev, lastDone,
                   prevDone, selectedBases>>

NextFold ==
    \/ \E items \in FoldLists : FoldLoaded(items)
    \/ FoldFailed
    \/ \E selected \in Selections : HandleBaseChange(selected)
    \/ Render

\* ---------------------------------------------------------- specifications

\* The live channel while the data synchronizer is studied: not mounted.
WsParked == InitWs /\ ~wsUrlSet

\* The data synchronizer while the live channel is studied: not mounted.
FetchParked == InitFetch /\ rev = "reconnect" /\ apiUrlSet

\* No changes map has been applied.
DiffParked == lastChanges = NoChanges /\ beforeDiff = << >>

\* The selection while another part is studied: the initial ["all"].
ViewParked == selectedBases = <<"all">> /\ lastView = NoView

Init == InitWs /\ FetchParked /\ DiffParked /\ ViewParked

Next == NextWs

Spec == Init /\ [][Next]_vars

\* The live channel while the data synchronizer is studied: the state of
\* Spec after Mount and SocketOpen(1), a socket open with its handlers.
WsOpen ==
    /\ phase = "mounted"
    /\ wsUrlSet = TRUE
    /\ wsStatus = "connected"
    /\ wsRef = 1
    /\ readyState = [s \in Sockets |-> IF s = 1 THEN "OPEN" ELSE "CLOSED"]
    /\ handlers = [s \in Sockets |-> s = 1]
    /\ heartbeatIntervalRef = 1
    /\ reconnectTimeoutRef = "null"
    /\ reconnectDelay = 0
    /\ reconnectAttemptsRef = 0
    /\ manualTimers = 0
    /\ ev = "OnOpen"
    /\ closures = 0
    /\ closuresSinceReset = 0
    /\ gaveUp = FALSE
    /\ forceClosed = {}

InitF == InitFetch /\ WsOpen /\ DiffParked /\ ViewParked

SpecFetch == InitF /\ [][NextFetch]_vars

InitV == InitView /\ WsOpen /\ DiffParked

SpecView == InitV /\ [][NextView]_vars

InitD == InitDiff /\ WsParked /\ ViewParked

SpecDiff == InitD /\ [][NextDiff]_vars

InitG == InitFold /\ WsOpen /\ DiffParked

SpecFold == InitG /\ [][NextFold]_vars

\* ------------------------------------------------------------------ claims

\* A WebSocket object is created in this step.
SocketCreated == \E s \in Sockets : ~Alive(s) /\ readyState'[s] = "CONNECTING"

\* C1: after the component has unmounted there is no open or connecting
\* WebSocket, no pending reconnect timer, no heartbeat interval and no other
\* pending timer that can create a WebSocket.
C1_UnmountReleasesChannel ==
    phase = "unmounted" =>
        /\ \A s \in Sockets : readyState[s] \notin {"CONNECTING", "OPEN"}
        /\ reconnectTimeoutRef # "pending"
        /\ heartbeatIntervalRef = 0
        /\ manualTimers = 0

\* Delay of the k-th reconnect as the claim lists it.
C2_Delays == <<2000, 4000, 8000, 16000, 30000, 30000, 30000, 30000>>

\* C2 as stated: the k-th consecutive closure with no open in between
\* (k = 1..8) arms the reconnect timer with delay min(1000 * 2^k, 30000).
C2_BackoffSinceOpen ==
    (ev = "OnClose" /\ closures \in 1..MAX_RECONNECT_ATTEMPTS) =>
        /\ reconnectTimeoutRef = "pending"
        /\ reconnectDelay = C2_Delays[closures]

\* C2 amended: the k-th consecutive closure with no open, no manual reconnect
\* and no unmount in between (k = 1..8) arms the reconnect timer with delay
\* min(1000 * 2^k, 30000), and no armed delay exceeds 30000 ms.
C2_BackoffSinceReset ==
    /\ (ev = "OnClose" /\ closuresSinceReset \in 1..MAX_RECONNECT_ATTEMPTS) =>
           /\ reconnectTimeoutRef = "pending"
           /\ reconnectDelay = C2_Delays[closuresSinceReset]
    /\ reconnectDelay <= 30000

C2_Witness ==
    /\ ev = "OnClose"
    /\ closuresSinceReset = MAX_RECONNECT_ATTEMPTS
    /\ reconnectTimeoutRef = "pending"
    /\ reconnectDelay = 30000

C4_OnlyManualRecovers ==
    [][ /\ (gaveUp /\ SocketCreated) => ev' = "ManualTimer"
        /\ ev' = "ManualTimer" => reconnectAttemptsRef' = 0
      ]_vars

\* C4 amended: once the budget is exhausted only the tab becoming visible or
\* the manual reconnect action creates a WebSocket; the manual action resets
\* the attempt counter before connecting, the visibility reconnect does not.
C4_ManualOrVisibleRecovers ==
    [][ /\ (gaveUp /\ SocketCreated) => ev' \in {"ManualTimer", "Visible"}
        /\ ev' = "ManualTimer" => reconnectAttemptsRef' = 0
        /\ (gaveUp /\ ev' = "Visible") =>
               reconnectAttemptsRef' = MAX_RECONNECT_ATTEMPTS
      ]_vars

C4_Witness ==
    /\ gaveUp
    /\ ev = "Visible"
    /\ wsRef # 0
    /\ readyState[wsRef] = "CONNECTING"
    /\ reconnectAttemptsRef = MAX_RECONNECT_ATTEMPTS

\* C5: right after forceCloseWs (unmount, manual reconnect) the reconnect timer
\* handle and the heartbeat handle are null, the attempt counter is 0, wsRef is
\* null and wsStatus is "disconnected"; and the close event of a socket it
\* closed arms no reconnect timer and leaves the attempt counter alone.
C5_ForceCloseIsSilent ==
    [][ /\ ev' \in {"ManualClick", "Unmount"} =>
               /\ reconnectTimeoutRef' = "null"
               /\ heartbeatIntervalRef' = 0
               /\ reconnectAttemptsRef' = 0
               /\ wsRef' = 0
               /\ wsStatus' = "disconnected"
        /\ \A s \in forceClosed :
               (Alive(s) /\ readyState'[s] = "CLOSED") =>
                   UNCHANGED <<reconnectTimeoutRef, reconnectDelay,
                               reconnectAttemptsRef, wsStatus, wsRef>>
      ]_vars

C5_Witness ==
    /\ ev = "CloseNoHandler"
    /\ phase = "mounted"
    /\ manualTimers > 0
    /\ reconnectTimeoutRef = "null"

\* The transitions of wsStatus the state machine allows.
C6_Allowed ==
    {<<"disconnected", "connecting">>, <<"connecting", "connected">>,
     <<"connecting", "disconnected">>, <<"connected", "disconnected">>}

\* C6: wsStatus changes only along disconnected->connecting,
\* connecting->connected, connecting->disconnected, connected->disconnected.
C6_StatusMachine ==
    [][wsStatus' # wsStatus => <<wsStatus, wsStatus'>> \in C6_Allowed]_vars

\* C7: a fetchData call that fails because the API URL is unset, the status
\* is not 2xx or the body is not JSON leaves charts, lastUpdated and
\* orderedBases as they were and ends with loading false.
C7_FailureKeepsSnapshot ==
    [][fev' \in {"FetchFailUrl", "FetchFailStatus", "FetchFailJson"} =>
           /\ UNCHANGED <<charts, lastUpdated, orderedBases>>
           /\ loading' = FALSE
      ]_vars

C7_Witness ==
    /\ fev = "FetchFailStatus"
    /\ charts # << >>
    /\ orderedBases # << >>
    /\ lastUpdated > 0
    /\ ~loading

\* C8: in the reconnect revision a 2xx response whose body is an object with
\* a charts array or a bare array of ChartItems replaces the snapshot by that
\* array and stamps lastUpdated.
C8_SuccessReplacesSnapshot ==
    (rev = "reconnect" /\ fev = "FetchOk" /\ lastDone.kind \in {"object", "array"}) =>
        /\ charts = lastDone.items
        /\ lastUpdated = lastDone.stamp
        /\ lastUpdated > 0

\* C9: in the first revision, after two successful fetchData calls the
\* snapshot is the body of the response that completed last, whichever
\* request was started first, and lastUpdated is the time of that completion.
C9_LastCompletedWins ==
    (/\ rev = "first"
     /\ fev = "FetchOk"
     /\ lastDone.kind = "object"
     /\ prevDone.kind = "object") =>
        /\ charts = lastDone.items
        /\ lastUpdated = lastDone.stamp

\* Two calls overlapped and the one started first completed last.
C9_Witness ==
    /\ rev = "first"
    /\ fev = "FetchOk"
    /\ lastDone.kind = "object"
    /\ prevDone.kind = "object"
    /\ lastDone.id < prevDone.id
    /\ lastDone.items # prevDone.items
    /\ charts = lastDone.items
    /\ inflight = {}

\* C10: updateChartsByChanges keeps the sequence of charts (titles, slots,
\* order) and each chart's sequence of labels; the value of label l in chart
\* t becomes C[t][l] when that entry is defined and stays the old value
\* otherwise; titles and labels of C that the snapshot lacks add nothing.
C10_DiffOverwritesMatchedValues ==
    fev = "ApplyChanges" =>
        /\ Len(charts) = Len(beforeDiff)
        /\ \A i \in 1..Len(beforeDiff) :
               LET old == beforeDiff[i]
                   new == charts[i]
               IN  /\ new.title = old.title
                   /\ new.slot = old.slot
                   /\ Len(new.data) = Len(old.data)
                   /\ \A j \in 1..Len(old.data) :
                          /\ new.data[j].label = old.data[j].label
                          /\ new.data[j].value =
                                 IF /\ old.title \in DOMAIN lastChanges
                                    /\ old.data[j].label \in DOMAIN lastChanges[old.title]
                                 THEN lastChanges[old.title][old.data[j].label]
                                 ELSE old.data[j].value

\* A changes map that overwrites Done of chart A, names a label and a title
\* the snapshot lacks, and leaves Todo of chart A and chart B alone.
C10_Witness ==
    /\ fev = "ApplyChanges"
    /\ Len(charts) = 2
    /\ DOMAIN lastChanges = {TitleA, TitleC}
    /\ DOMAIN lastChanges[TitleA] = {"Done", "Other"}
    /\ lastChanges[TitleA]["Done"] = 7
    /\ charts[1].data = <<[label |-> "Done", value |-> 7],
                          [label |-> "Todo", value |-> 1]>>
    /\ charts[2] = beforeDiff[2]

\* No two charts of the snapshot share a title, and no chart has two points
\* with the same label.
UniqueKeys(snapshot) ==
    /\ \A i, k \in 1..Len(snapshot) : snapshot[i].title = snapshot[k].title => i = k
    /\ \A i \in 1..Len(snapshot) :
           \A j, k \in 1..Len(snapshot[i].data) :
               snapshot[i].data[j].label = snapshot[i].data[k].label => j = k

\* C11 as stated: for every snapshot S and every changes map that references
\* only titles and labels of S, applying the map and then the inverse map
\* (same keys, the values S had) gives back S.
C11_RoundTrip ==
    fev = "RevertChanges" => charts = beforeDiff

\* C11 amended: the round trip gives back S when no two charts of S share a
\* title and no chart of S has two points with the same label.
C11_RoundTripUniqueKeys ==
    (fev = "RevertChanges" /\ UniqueKeys(beforeDiff)) => charts = beforeDiff

\* A round trip over a snapshot with unique keys whose first half changed a value.
C11_Witness ==
    /\ fev = "RevertChanges"
    /\ UniqueKeys(beforeDiff)
    /\ UpdateChartsByChanges(beforeDiff, lastChanges) # beforeDiff
    /\ charts = beforeDiff

\* C12: in the reconnect revision a frame {"type": "update"} without a charts
\* payload starts a fetchData call (a full re-fetch of the snapshot).
C12_BareUpdateRefetches ==
    [][fev' = "FrameUpdate" => started' = started + 1]_vars

\* C13: in the reconnect revision, after a frame
\* {"type": "update", "charts": {"charts": [...]}} is handled the snapshot
\* equals the array of ChartItems the frame carried.
C13_PayloadReplacesSnapshot ==
    (rev = "reconnect" /\ fev = "FrameMerged") => charts = lastDone.items

\* C14: a frame that is not valid JSON changes nothing: the snapshot,
\* lastUpdated, wsStatus, the attempt counter and the timers are as before,
\* the socket stays in use and no fetchData call is started.
C14_MalformedFrameDropped ==
    [][fev' = "FrameNotJson" =>
           /\ UNCHANGED <<charts, chartsRef, lastUpdated, orderedBases, loading>>
           /\ UNCHANGED <<wsStatus, reconnectAttemptsRef, reconnectTimeoutRef,
                          reconnectDelay, heartbeatIntervalRef, manualTimers>>
           /\ UNCHANGED <<wsRef, readyState, handlers>>
           /\ UNCHANGED <<inflight, started>>
      ]_vars

\* A malformed frame arrived on the open socket after a snapshot was loaded.
C14_Witness ==
    /\ fev = "FrameNotJson"
    /\ charts # << >>
    /\ lastUpdated > 0
    /\ wsStatus = "connected"
    /\ wsRef # 0
    /\ readyState[wsRef] = "OPEN"

\* C15: in the first and the reconnect revision selectedBases, which starts
\* as ["all"], is never empty, whatever toggleBase calls with "all" or a base
\* of the snapshot are made; toggling off the only selected base yields
\* exactly ["all"].
C15_SelectionNeverEmpty ==
    rev \in {"first", "reconnect"} =>
        /\ selectedBases # << >>
        /\ (/\ lastView.ev = "Toggle"
            /\ lastView.selected = <<lastView.base>>
            /\ lastView.base # "all") => selectedBases = <<"all">>

\* The only selected base was toggled off.
C15_Witness ==
    /\ rev \in {"first", "reconnect"}
    /\ lastView.ev = "Toggle"
    /\ lastView.base # "all"
    /\ lastView.selected = <<lastView.base>>
    /\ Len(lastView.baseList) > 1
    /\ selectedBases = <<"all">>

\* Every base of the snapshot is selected: "all" or each base is listed.
EveryBaseSelected ==
    \/ Includes(selectedBases, "all")
    \/ \A i \in 1..Len(BaseList) : Includes(selectedBases, BaseList[i])

\* C16: in the first and the reconnect revision, for every snapshot with at
\* least one base, a toggle of an individual base that leaves every base of
\* the snapshot selected leaves selectedBases equal to ["all"].
C16_CollapseToAll ==
    (/\ rev \in {"first", "reconnect"}
     /\ lastView.ev = "Toggle"
     /\ lastView.base # "all"
     /\ Len(BaseList) > 0
     /\ EveryBaseSelected) => selectedBases = <<"all">>

\* The elements of a sequence.
Range(seq) == {seq[i] : i \in 1..Len(seq)}

\* seq without the element x, the order of the others kept.
Without(seq, x) == SelectSeq(seq, LAMBDA b : b # x)

\* C17: after handleDragEnd with a drop target that exists and differs from
\* the dragged base, orderedBases is a permutation of the old list in which
\* the dragged base has the index the target had and the other bases keep
\* their relative order; with no target, or the dragged base as target,
\* orderedBases is unchanged.
C17_Reorder ==
    lastView.ev = "Drag" =>
        IF lastView.over # "null" /\ lastView.over # lastView.base
        THEN /\ Len(orderedBases) = Len(lastView.ordered)
             /\ Range(orderedBases) = Range(lastView.ordered)
             /\ IndexOf(orderedBases, lastView.base)
                    = IndexOf(lastView.ordered, lastView.over)
             /\ Without(orderedBases, lastView.base)
                    = Without(lastView.ordered, lastView.base)
        ELSE orderedBases = lastView.ordered

\* A base was dropped two places away from where it was.
C17_Witness ==
    /\ lastView.ev = "Drag"
    /\ lastView.over \notin {"null", lastView.base}
    /\ Len(orderedBases) = 3
    /\ IndexOf(lastView.ordered, lastView.base) = 1
    /\ IndexOf(orderedBases, lastView.base) = 3

\* C18: in the first revision (and the second revision of part_002, which has
\* the same fetchData), after a successful fetch every base of the snapshot
\* is in the displayed order while the selection is ["all"]: a base that a
\* non-empty orderedBases lacked has been appended.
C18_NewBasesDisplayed ==
    (/\ rev = "first"
     /\ fev = "FetchOk"
     /\ selectedBases = <<"all">>) => Range(BaseList) \subseteq Range(DisplayedBases)

\* C19: in the reconnect revision every base the component renders a group
\* for (every element of displayedBases) has a chart in the filtered
\* snapshot, i.e. grouped[base] is defined.
C19_RenderedBasesHaveCharts ==
    (rev = "reconnect" /\ Rendered.kind = "groups") =>
        Range(Rendered.bases) \subseteq Range(GroupedBases)

\* C20: in part_000, for a non-empty snapshot, when filtering by the selection
\* leaves no group the component renders the "no bases selected" or the
\* "no data" text and not an empty container.
C20_EmptyProjectionIndicated ==
    (/\ rev = "toggleAll"
     /\ ~loading
     /\ charts # << >>
     /\ GroupedBases = << >>) => Rendered.kind \in {"noBases", "noData"}

\* The sockets that are CONNECTING or OPEN.
LiveSockets == {s \in Sockets : readyState[s] \in {"CONNECTING", "OPEN"}}

\* C24: at most one WebSocket created by the component is CONNECTING or OPEN
\* at any time, and wsRef refers to it.
C24_SingleLiveSocket ==
    /\ Cardinality(LiveSockets) <= 1
    /\ \A s \in LiveSockets : wsRef = s

\* C25: a heartbeat interval exists only while the current socket (wsRef) has
\* opened and has not yet closed or been force-closed; the interval is the
\* one kept in heartbeatIntervalRef and pings that socket.
C25_HeartbeatLifetime ==
    heartbeatIntervalRef # 0 =>
        /\ wsRef = heartbeatIntervalRef
        /\ readyState[wsRef] \in {"OPEN", "CLOSING"}
        /\ wsRef \notin forceClosed

\* C26: the reconnect attempt counter is always between 0 and 8, it is 0
\* right after a socket's open event, and the first closure after an open
\* is retried after 2000 ms.
C26_AttemptCounter ==
    /\ reconnectAttemptsRef \in 0..MAX_RECONNECT_ATTEMPTS
    /\ ev = "OnOpen" => reconnectAttemptsRef = 0
    /\ (ev = "OnClose" /\ closures = 1) =>
           /\ reconnectAttemptsRef = 1
           /\ reconnectTimeoutRef = "pending"
           /\ reconnectDelay = 2000

\* A socket opened after retries that had reached the 30000 ms delay.
C26_Witness ==
    /\ ev = "OnOpen"
    /\ reconnectDelay = BACKOFF_CAP_MS
    /\ reconnectAttemptsRef = 0

\* No element occurs twice in the sequence.
NoDuplicates(seq) == \A i, k \in 1..Len(seq) : seq[i] = seq[k] => i = k

\* C27: in the second revision of part_002, after any fetches (successful or
\* failed) and drags, orderedBases has no duplicate base; after a successful
\* fetch every base of orderedBases is a base of the snapshot; a drag
\* neither adds nor removes a base.
C27_OrderState ==
    rev = "second" =>
        /\ NoDuplicates(orderedBases)
        /\ (lastView.ev = "Load" /\ fev = "FetchOk") =>
               Range(orderedBases) \subseteq Range(BaseList)
        /\ lastView.ev = "Drag" =>
               /\ Len(orderedBases) = Len(lastView.ordered)
               /\ Range(orderedBases) = Range(lastView.ordered)

\* A successful fetch removed a base from an order that a drag had changed.
C27_Witness ==
    /\ rev = "second"
    /\ lastView.ev = "Load"
    /\ fev = "FetchOk"
    /\ Len(orderedBases) = 2
    /\ Len(lastView.ordered) = 3
    /\ lastView.ordered # Bases(<<ItemA, ItemB, ItemC>>)

\* C28: in the reconnect revision allSelected is true only if selectedBases
\* is ["all"] or lists every base of the snapshot; hence every chart that is
\* displayed has a base the user selected.
C28_AllSelectedSound ==
    rev = "reconnect" =>
        /\ AllSelected =>
               \/ selectedBases = <<"all">>
               \/ \A i \in 1..Len(BaseList) : Includes(selectedBases, BaseList[i])
        /\ selectedBases # <<"all">> =>
               \A i \in 1..Len(FilteredCharts) :
                   Includes(selectedBases, BaseOf(FilteredCharts[i]))

\* C30 as stated: in the first revision, once the mount effect has run,
\* loading is true exactly while at least one fetchData call is in flight.
C30_LoadingWhileInFlight ==
    (rev = "first" /\ mountedF) => (loading <=> inflight # {})

\* C30 amended: loading is true right after a fetchData call has started
\* with an API URL, and it is false whenever no call is in flight; a call
\* that completes clears it also while other calls are still in flight.
C30_LoadingClearedByAnyCompletion ==
    (rev = "first" /\ mountedF) =>
        /\ inflight = {} => ~loading
        /\ fev = "FetchStart" => loading
        /\ fev \in {"FetchOk", "FetchThrowAfterSet", "FetchFailStatus",
                     "FetchFailNetwork", "FetchFailJson", "FetchFailUrl"} => ~loading

\* Two calls were started and both have completed, one of them by failing.
C30_Witness ==
    /\ rev = "first"
    /\ mountedF
    /\ started >= 2
    /\ inflight = {}
    /\ fev = "FetchFailStatus"
    /\ lastDone.id # 0
    /\ ~loading

\* The sum of the percentages displayed for the points of a chart.
RECURSIVE SumOfPercents(_, _)
SumOfPercents(data, total) ==
    IF data = << >> THEN 0
    ELSE SumOfPercents(SubSeq(data, 1, Len(data) - 1), total)
             + DisplayedPercent(data[Len(data)].value, total)

\* |x|
Abs(x) == IF x < 0 THEN -x ELSE x

\* C21: for every chart with total T, each displayed percentage p of a value
\* v is an integer nearest to 100 * v / T when T > 0, so that the n
\* percentages of the chart sum to within n / 2 of 100, and p is 0 when T = 0.
C21_Percentages ==
    \A i \in 1..Len(charts) :
        LET data == charts[i].data
            T == TotalOf(data)
        IN  IF T > 0
            THEN /\ \A j \in 1..Len(data) :
                        2 * Abs(DisplayedPercent(data[j].value, T) * T
                                    - 100 * data[j].value) <= T
                 /\ 2 * Abs(SumOfPercents(data, T) - 100) <= Len(data)
            ELSE \A j \in 1..Len(data) : DisplayedPercent(data[j].value, T) = 0

\* The sum of the values of the points with the label of the items of
\* filteredCharts at the positions of S.
RECURSIVE LabelSum(_, _, _)
LabelSum(fitems, S, label) ==
    IF S = {} THEN 0
    ELSE LET k == CHOOSE k \in S : TRUE
         IN  TotalOf(SelectSeq(fitems[k].data, LAMBDA d : d.label = label))
                 + LabelSum(fitems, S \ {k}, label)

\* The sum of all values of the items of filteredCharts at the positions of S.
RECURSIVE ValueSum(_, _)
ValueSum(fitems, S) ==
    IF S = {} THEN 0
    ELSE LET k == CHOOSE k \in S : TRUE
         IN  TotalOf(fitems[k].data) + ValueSum(fitems, S \ {k})

\* The slotted item at position p with the null-slot items whose nearest
\* preceding slotted item of the same base it is.
Family(fitems, p) ==
    {p} \cup {k \in 1..Len(fitems) :
                fitems[k].slot = NullSlot /\ NearestParent(fitems, k) = p}

\* The labels of the items of filteredCharts at the positions of S.
LabelsAt(fitems, S) ==
    UNION {{fitems[k].data[j].label : j \in 1..Len(fitems[k].data)} : k \in S}

\* C22: in part_001 an item with slot null is not drawn as a chart of its
\* own, and when a slotted item of its base precedes it in the filtered list
\* the chart of the nearest such item is drawn with, for every label of the
\* parent and of its subtasks, one point whose value is the sum of their
\* values of that label, and with the total and the percentages of these
\* folded points.
C22_FoldIntoNearestParent ==
    (rev = "fold" /\ ~loading /\ charts # << >>) =>
        LET fitems == FilteredItems(charts, selectedBases)
            out == Drawn(Projection(charts, selectedBases))
        IN  \A k \in 1..Len(fitems) :
                fitems[k].slot = NullSlot =>
                    /\ \A b \in 1..Len(out) : \A n \in 1..Len(out[b].charts) :
                           out[b].charts[n].title # fitems[k].title[2]
                    /\ LET p == NearestParent(fitems, k)
                           fam == Family(fitems, p)
                       IN  p # 0 =>
                           \E b \in 1..Len(out) : \E n \in 1..Len(out[b].charts) :
                               LET c == out[b].charts[n]
                               IN  /\ out[b].base = BaseOf(fitems[k])
                                   /\ c.title = fitems[p].title[2]
                                   /\ \A label \in LabelsAt(fitems, fam) :
                                          \E j \in 1..Len(c.data) :
                                              /\ c.data[j].label = label
                                              /\ c.data[j].value =
                                                     LabelSum(fitems, fam, label)
                                              /\ 2 * Abs(c.percent[j] * c.total
                                                     - 100 * c.data[j].value)
                                                     <= c.total
                                   /\ Len(c.data) =
                                          Cardinality(LabelsAt(fitems, fam))
                                   /\ c.total = ValueSum(fitems, fam)

\* The sum of the totals of a sequence of drawn charts.
RECURSIVE SumOfTotals(_)
SumOfTotals(drawn) ==
    IF drawn = << >> THEN 0
    ELSE drawn[1].total + SumOfTotals(Tail(drawn))

\* C29: in part_001, past the early returns, for every base of the filtered
\* snapshot the totals of the charts drawn for the base sum to the sum of
\* all values of all filtered items of the base.
C29_FoldConservation ==
    (rev = "fold" /\ ~loading /\ charts # << >>) =>
        LET fitems == FilteredItems(charts, selectedBases)
            out == Drawn(Projection(charts, selectedBases))
        IN  \A b \in 1..Len(out) :
                SumOfTotals(out[b].charts) =
                    ValueSum(fitems, {k \in 1..Len(fitems) :
                                        BaseOf(fitems[k]) = out[b].base})

\* C23: a render of part_001 leaves charts and the selection as they were,
\* and the projection of the state after it, which is what the next render
\* returns, is the ordered groups, charts, values, totals and percentages
\* it returned itself.
C23_ProjectionIdempotent ==
    (rev = "fold" /\ lastView.ev = "Render") =>
        /\ charts = lastView.before
        /\ selectedBases = lastView.selected
        /\ Drawn(Projection(charts, selectedBases)) = lastView.out

\* A render has folded the subtask of A into its parent: Done 3 + 2, Todo 1
\* and the appended New 4.
C23_Witness ==
    /\ rev = "fold"
    /\ lastView.ev = "Render"
    /\ lastView.before = <<ParentA, SubA>>
    /\ Len(lastView.out) = 1
    /\ lastView.out[1].charts[1].data =
           <<[label |-> "Done", value |-> 5], [label |-> "Todo", value |-> 1],
             [label |-> "New", value |-> 4]>>
    /\ lastView.out[1].charts[1].total = 10

====
